---- MODULE Spec2Model ----
(***************************************************************************)
(* A model of src/lab/main.py: the in-memory Table, the TableOperations    *)
(* that derive and mutate tables, and the part-splitting save adapters.    *)
(*                                                                         *)
(* Python lists are objects: Table(headers, rows) stores the references it *)
(* is given, a slice or a comprehension builds a new outer list whose      *)
(* elements are the same row objects, and list.append mutates the object   *)
(* for every holder.  The model therefore keeps a heap: headerObjs are the *)
(* header list objects, rowObjs the row list objects, and a table holds    *)
(* the index of its header object and the sequence of indexes of its rows. *)
(***************************************************************************)
EXTENDS Integers, Sequences, FiniteSets, TLC

(***************************************************************************)
(* Bounds of the model.                                                    *)
(***************************************************************************)
MaxTables == 3
MaxCols == 3
MaxRows == 2
MaxPartRows == 3

(***************************************************************************)
(* Generic helpers.                                                        *)
(***************************************************************************)
Range(s) == {s[i] : i \in 1..Len(s)}

Abs(n) == IF n < 0 THEN -n ELSE n

RECURSIVE Gcd(_, _)
Gcd(a, b) == IF b = 0 THEN a ELSE Gcd(b, a % b)

RECURSIVE Pow10(_)
Pow10(n) == IF n = 0 THEN 1 ELSE 10 * Pow10(n - 1)

(***************************************************************************)
(* Python float values.  A finite float is kept as the exact reduced       *)
(* fraction n/d (d > 0); the three special values are kinds of their own.  *)
(* Rounding to binary64 is not modelled: the numbers of the model are      *)
(* small, and no property is about rounding.                               *)
(***************************************************************************)
Reduced(n, d, g) == [k |-> "fin", n |-> n \div g, d |-> d \div g]

\* the finite float n/d, d # 0
Fin(n, d) ==
    IF d < 0 THEN Reduced(-n, -d, Gcd(Abs(n), Abs(d)))
    ELSE Reduced(n, d, Gcd(Abs(n), Abs(d)))

PosInf == [k |-> "inf", n |-> 0, d |-> 1]

NegInf == [k |-> "ninf", n |-> 0, d |-> 1]

NaN == [k |-> "nan", n |-> 0, d |-> 1]

\* -1, 0 or 1 for a float that is not NaN
Sign(x) ==
    CASE x.k = "inf" -> 1
      [] x.k = "ninf" -> -1
      [] OTHER -> IF x.n > 0 THEN 1 ELSE IF x.n < 0 THEN -1 ELSE 0

SignedInf(s) == IF s > 0 THEN PosInf ELSE NegInf

FNeg(x) ==
    CASE x.k = "inf" -> NegInf
      [] x.k = "ninf" -> PosInf
      [] x.k = "nan" -> NaN
      [] OTHER -> Fin(-x.n, x.d)

\* x + y of two Python floats
FAdd(x, y) ==
    CASE x.k = "nan" \/ y.k = "nan" -> NaN
      [] x.k = "fin" /\ y.k = "fin" -> Fin(x.n * y.d + y.n * x.d, x.d * y.d)
      [] x.k = "fin" -> y
      [] y.k = "fin" -> x
      [] OTHER -> IF x.k = y.k THEN x ELSE NaN

\* x - y of two Python floats
FSub(x, y) == FAdd(x, FNeg(y))

\* x * y of two Python floats
FMul(x, y) ==
    CASE x.k = "nan" \/ y.k = "nan" -> NaN
      [] x.k = "fin" /\ y.k = "fin" -> Fin(x.n * y.n, x.d * y.d)
      [] OTHER -> IF Sign(x) * Sign(y) = 0 THEN NaN
                  ELSE SignedInf(Sign(x) * Sign(y))

\* Python's y != 0 on a float: NaN differs from everything
FIsZero(y) == y.k = "fin" /\ y.n = 0

\* The outcome of evaluating an expression: a value or a raised exception.
Val(v) == [exc |-> "none", v |-> v]

Raise(e) == [exc |-> e, v |-> NaN]

\* x / y of two Python floats: a zero divisor raises ZeroDivisionError
FTrueDiv(x, y) ==
    CASE FIsZero(y) -> Raise("ZeroDivisionError")
      [] x.k = "nan" \/ y.k = "nan" -> Val(NaN)
      [] x.k = "fin" /\ y.k = "fin" -> Val(Fin(x.n * y.d, x.d * y.n))
      [] x.k = "fin" -> Val(Fin(0, 1))
      [] y.k = "fin" -> Val(SignedInf(Sign(x) * Sign(y)))
      [] OTHER -> Val(NaN)

(***************************************************************************)
(* Cell values.  A cell is a Python object of one of six runtime types;    *)
(* every cell record has the same fields so that cells can be compared:    *)
(* t is the runtime type, s the characters of a str, x the number of an    *)
(* int, float or bool (and the instant of a datetime).                     *)
(***************************************************************************)
StrCell(s) == [t |-> "str", s |-> s, x |-> Fin(0, 1)]

IntCell(n) == [t |-> "int", s |-> <<>>, x |-> Fin(n, 1)]

FloatCell(f) == [t |-> "float", s |-> <<>>, x |-> f]

BoolCell(b) == [t |-> "bool", s |-> <<>>, x |-> Fin(IF b THEN 1 ELSE 0, 1)]

NoneCell == [t |-> "none", s |-> <<>>, x |-> Fin(0, 1)]

DateCell(n) == [t |-> "datetime", s |-> <<>>, x |-> Fin(n, 1)]

\* isinstance(val, typ): bool is a subclass of int
IsInstance(c, typ) ==
    CASE typ = "int" -> c.t \in {"int", "bool"}
      [] OTHER -> c.t = typ

\* a == b of two cells: numbers compare by value across int, float and bool
PyEq(a, b) ==
    LET num == {"int", "float", "bool"}
    IN  IF a.t \in num /\ b.t \in num
        THEN a.x.k # "nan" /\ a.x = b.x
        ELSE a = b

(***************************************************************************)
(* float(value).  A str is parsed as the code's float() parses it, over    *)
(* the characters the model's strings are made of: an optional sign, then  *)
(* digits with an optional point, or inf, or nan.                          *)
(***************************************************************************)
Digits == {"0", "1", "2", "3", "4", "5", "6", "7", "8", "9"}

DigitVal(c) ==
    CASE c = "0" -> 0 [] c = "1" -> 1 [] c = "2" -> 2 [] c = "3" -> 3
      [] c = "4" -> 4 [] c = "5" -> 5 [] c = "6" -> 6 [] c = "7" -> 7
      [] c = "8" -> 8 [] c = "9" -> 9

RECURSIVE DigitsVal(_)
DigitsVal(s) ==
    IF s = <<>> THEN 0
    ELSE 10 * DigitsVal(SubSeq(s, 1, Len(s) - 1)) + DigitVal(s[Len(s)])

\* the position of the first "." of s, or 0
PointAt(s) ==
    IF \E i \in 1..Len(s) : s[i] = "."
    THEN CHOOSE i \in 1..Len(s) : s[i] = "." /\ \A j \in 1..(i - 1) : s[j] # "."
    ELSE 0

\* the digits ip before the point and fp after it as a float, or ValueError
ParseParts(ip, fp) ==
    IF Len(ip) + Len(fp) > 0 /\ Range(ip) \cup Range(fp) \subseteq Digits
    THEN Val(Fin(DigitsVal(ip) * Pow10(Len(fp)) + DigitsVal(fp), Pow10(Len(fp))))
    ELSE Raise("ValueError")

\* float(s) of an unsigned literal whose first point is at p (0: none)
ParseAt(s, p) ==
    CASE s = <<"i", "n", "f">> -> Val(PosInf)
      [] s = <<"n", "a", "n">> -> Val(NaN)
      [] p = 0 -> ParseParts(s, <<>>)
      [] OTHER -> ParseParts(SubSeq(s, 1, p - 1), SubSeq(s, p + 1, Len(s)))

\* float(s) of an unsigned literal
ParseUnsigned(s) == ParseAt(s, PointAt(s))

\* the sign applied to the outcome of parsing what follows it
Signed(sign, r) == IF r.exc = "none" /\ sign = "-" THEN Val(FNeg(r.v)) ELSE r

\* float(s) of a str
ParseFloat(s) ==
    IF s # <<>> /\ s[1] \in {"-", "+"}
    THEN Signed(s[1], ParseUnsigned(Tail(s)))
    ELSE ParseUnsigned(s)

\* target_type(value) with target_type = float
PyFloat(c) ==
    CASE c.t = "str" -> ParseFloat(c.s)
      [] c.t \in {"int", "float", "bool"} -> Val(c.x)
      [] OTHER -> Raise("TypeError")

\* TableOperations._convert_to_numeric(value, float): a ValueError is raised
\* again as a ValueError, anything else passes through
ConvertToNumeric(c) == PyFloat(c)

(***************************************************************************)
(* The state.                                                              *)
(*   headerObjs  the header list objects (Table.headers refers to one)     *)
(*   rowObjs     the row list objects (the elements of Table.rows)         *)
(*   tables      the Table objects, in order of construction               *)
(*   origin      for each table, the table it was made from (0: a file)    *)
(*               and whether a copy_table=True call returned it (history   *)
(*               only; no operation reads it)                              *)
(*   last        the last call and its outcome: its name and arguments,    *)
(*               "ok" or the exception raised and the source line raising  *)
(*               it, the tables returned (res) and the bare row list       *)
(*               returned (rows)                                           *)
(*   written     the files the last save_table call wrote, in order        *)
(***************************************************************************)
VARIABLES headerObjs, rowObjs, tables, origin, last, written

vars == <<headerObjs, rowObjs, tables, origin, last, written>>

TableIds == 1..Len(tables)

\* table.headers and table.rows as values, in a heap and in the current one
HeadersIn(hs, tbls, t) == hs[tbls[t].headers]

RowsIn(rs, tbls, t) == [i \in 1..Len(tbls[t].rows) |-> rs[tbls[t].rows[i]]]

HeadersOf(t) == HeadersIn(headerObjs, tables, t)

RowsOf(t) == RowsIn(rowObjs, tables, t)

\* Table.__init__: the references are stored, column_types is a new dict
\* with one key per distinct header
NewTable(h, rows) ==
    [headers |-> h, rows |-> rows,
     column_types |-> [x \in Range(headerObjs[h]) |-> "str"]]

\* the arguments of a call; a call sets the ones it has
NoArgs ==
    [t |-> 0, u |-> 0, n |-> 0, m |-> 0, has |-> FALSE, copy |-> FALSE,
     c1 |-> [kind |-> "other", i |-> 0, s |-> ""],
     c2 |-> [kind |-> "other", i |-> 0, s |-> ""],
     name |-> "", mask |-> <<>>, keys |-> {}, dict |-> <<>>]

Outcome(op, args, status, line, res, rows) ==
    [op |-> op, args |-> args, status |-> status, line |-> line,
     res |-> res, rows |-> rows]

Origin(op, src) ==
    [src |-> src,
     copy |-> op \in {"filter_rows", "get_rows_by_number", "get_rows_by_index"}]

\* a call that raises: nothing but the outcome changes
Fails(op, args, status, line) ==
    /\ last' = Outcome(op, args, status, line, <<>>, <<>>)
    /\ UNCHANGED <<headerObjs, rowObjs, tables, origin, written>>

\* a call that returns a bare row list
ReturnsRows(op, args, rows) ==
    /\ last' = Outcome(op, args, "ok", 0, <<>>, rows)
    /\ UNCHANGED <<headerObjs, rowObjs, tables, origin, written>>

\* a call that returns one new Table sharing the headers of table t
ReturnsTable(op, args, t, rows) ==
    /\ tables' = Append(tables, NewTable(tables[t].headers, rows))
    /\ origin' = Append(origin, Origin(op, t))
    /\ last' = Outcome(op, args, "ok", 0, <<Len(tables) + 1>>, <<>>)
    /\ UNCHANGED <<headerObjs, rowObjs, written>>

\* a faulty variant of Slice: lo taken as the position of the first element kept,
\* counted from 1
SliceFromOne(s, lo, hi) ==
    IF lo >= hi THEN <<>>
    ELSE SubSeq(s, IF lo < 1 THEN 1 ELSE lo, IF hi > Len(s) THEN Len(s) ELSE hi)

\* a slice bound as Python normalises it on a list of n elements
SliceBound(i, n) ==
    IF i < 0 THEN (IF i + n < 0 THEN 0 ELSE i + n)
    ELSE IF i > n THEN n ELSE i

\* the Python slice s[lo:hi]
Slice(s, lo, hi) ==
    LET l == SliceBound(lo, Len(s))
        h == SliceBound(hi, Len(s))
    IN  IF l >= h THEN <<>> ELSE SubSeq(s, l + 1, h)

\* s[i] for a Python index i (negative counts from the end): a value, or
\* IndexError
PyIndex(s, i) ==
    IF i >= 0 /\ i < Len(s) THEN Val(s[i + 1])
    ELSE IF i < 0 /\ -i <= Len(s) THEN Val(s[Len(s) + i + 1])
    ELSE Raise("IndexError")

RECURSIVE SelectIdx(_, _)
\* the elements of s whose position is in keep, in order
SelectIdx(s, keep) ==
    IF s = <<>> THEN <<>>
    ELSE LET front == SelectIdx(SubSeq(s, 1, Len(s) - 1), keep)
         IN  IF Len(s) \in keep THEN Append(front, s[Len(s)]) ELSE front

(***************************************************************************)
(* TableOperations.concat                                                  *)
(***************************************************************************)
ConcatArgs(a, b) == [NoArgs EXCEPT !.t = a, !.u = b]

\* a faulty variant of Concat: the header lists are compared by their lengths
ConcatSameWidth(a, b) ==
    IF Len(HeadersOf(a)) # Len(HeadersOf(b))
    THEN Fails("concat", ConcatArgs(a, b), "ValueError", 91)
    ELSE ReturnsTable("concat", ConcatArgs(a, b), a, tables[a].rows \o tables[b].rows)

Concat(a, b) ==
    IF HeadersOf(a) # HeadersOf(b)
    THEN Fails("concat", ConcatArgs(a, b), "ValueError", 91)
    ELSE ReturnsTable("concat", ConcatArgs(a, b), a, tables[a].rows \o tables[b].rows)

(***************************************************************************)
(* TableOperations.split                                                   *)
(***************************************************************************)
SplitArgs(t, row_number) == [NoArgs EXCEPT !.t = t, !.n = row_number]

Split(t, row_number) ==
    IF ~(0 <= row_number /\ row_number <= Len(tables[t].rows))
    THEN Fails("split", SplitArgs(t, row_number), "ValueError", 97)
    ELSE /\ tables' = tables \o
               << NewTable(tables[t].headers, Slice(tables[t].rows, 0, row_number)),
                  NewTable(tables[t].headers,
                           Slice(tables[t].rows, row_number, Len(tables[t].rows))) >>
         /\ origin' = origin \o << Origin("split", t), Origin("split", t) >>
         /\ last' = Outcome("split", SplitArgs(t, row_number), "ok", 0,
                            <<Len(tables) + 1, Len(tables) + 2>>, <<>>)
         /\ UNCHANGED <<headerObjs, rowObjs, written>>

(***************************************************************************)
(* TableOperations.filter_rows                                             *)
(***************************************************************************)
FilterArgs(t, bool_list, copy_table) ==
    [NoArgs EXCEPT !.t = t, !.mask = bool_list, !.copy = copy_table]

\* what filter_rows and the two get_rows calls end with
ReturnsRowsOrTable(op, args, t, rows, copy_table) ==
    IF copy_table THEN ReturnsTable(op, args, t, rows) ELSE ReturnsRows(op, args, rows)

FilterRows(t, bool_list, copy_table) ==
    IF Len(bool_list) # Len(tables[t].rows)
    THEN Fails("filter_rows", FilterArgs(t, bool_list, copy_table), "ValueError", 176)
    ELSE ReturnsRowsOrTable("filter_rows", FilterArgs(t, bool_list, copy_table), t,
            SelectIdx(tables[t].rows, {i \in 1..Len(bool_list) : bool_list[i]}),
            copy_table)

(***************************************************************************)
(* TableOperations.get_rows_by_number; has_stop = FALSE is stop = None     *)
(***************************************************************************)
RangeArgs(t, start, has_stop, stop_arg, copy_table) ==
    [NoArgs EXCEPT !.t = t, !.n = start, !.has = has_stop,
                   !.m = IF has_stop THEN stop_arg ELSE 0, !.copy = copy_table]

\* lines 189 to 192, stop being the stop of line 188
RowsInRange(args, t, start, stop, copy_table) ==
    IF ~(0 <= start /\ start < Len(tables[t].rows))
          \/ ~(0 <= stop /\ stop <= Len(tables[t].rows))
    THEN Fails("get_rows_by_number", args, "ValueError", 190)
    ELSE ReturnsRowsOrTable("get_rows_by_number", args, t,
                            Slice(tables[t].rows, start, stop), copy_table)

GetRowsByNumber(t, start, has_stop, stop_arg, copy_table) ==
    RowsInRange(RangeArgs(t, start, has_stop, stop_arg, copy_table), t, start,
                IF has_stop THEN stop_arg ELSE start + 1, copy_table)

(***************************************************************************)
(* TableOperations.get_rows_by_index: the rows whose first cell equals one *)
(* of the given values                                                     *)
(***************************************************************************)
KeyArgs(t, indexes, copy_table) ==
    [NoArgs EXCEPT !.t = t, !.keys = indexes, !.copy = copy_table]

GetRowsByIndex(t, indexes, copy_table) ==
    IF \E i \in 1..Len(tables[t].rows) : rowObjs[tables[t].rows[i]] = <<>>
    THEN Fails("get_rows_by_index", KeyArgs(t, indexes, copy_table), "IndexError", 196)
    ELSE ReturnsRowsOrTable("get_rows_by_index", KeyArgs(t, indexes, copy_table), t,
            SelectIdx(tables[t].rows,
                      {i \in 1..Len(tables[t].rows) :
                          \E k \in indexes : PyEq(rowObjs[tables[t].rows[i]][1], k)}),
            copy_table)

(***************************************************************************)
(* Column arithmetic.  A column argument (and a key of types_dict) is an   *)
(* int (a position), a str (a header) or an object of another type:        *)
(* [kind, i, s].                                                           *)
(***************************************************************************)
ColIdx(i) == [NoArgs.c1 EXCEPT !.kind = "int", !.i = i]

ColName(s) == [NoArgs.c1 EXCEPT !.kind = "str", !.s = s]

ColOther == NoArgs.c1

\* list.index(x): the zero-based position of the first x, or ValueError
ListIndex(s, x) ==
    IF \E i \in 1..Len(s) : s[i] = x
    THEN Val((CHOOSE i \in 1..Len(s) : s[i] = x /\ \A j \in 1..(i - 1) : s[j] # x) - 1)
    ELSE Raise("ValueError")

\* column if isinstance(column, int) else table.headers.index(column)
ResolveCol(t, c) ==
    CASE c.kind = "int" -> Val(c.i)
      [] c.kind = "str" -> ListIndex(HeadersOf(t), c.s)
      [] OTHER -> Raise("ValueError")

AddLambda(x, y) == Val(FAdd(x, y))

SubLambda(x, y) == Val(FSub(x, y))

MulLambda(x, y) == Val(FMul(x, y))

\* a faulty variant of DivLambda: a plain x / y
DivLambdaUnguarded(x, y) == FTrueDiv(x, y)

\* lambda x, y: x / y if y != 0 else float('inf')
DivLambda(x, y) == IF ~FIsZero(y) THEN FTrueDiv(x, y) ELSE Val(PosInf)

Operation(op, x, y) ==
    CASE op = "add" -> AddLambda(x, y)
      [] op = "sub" -> SubLambda(x, y)
      [] op = "mul" -> MulLambda(x, y)
      [] op = "div" -> DivLambda(x, y)

Exc(e, line) == [exc |-> e, line |-> line, v |-> NaN]

\* the except clause of the loop body: its message reads both operand cells
\* again, and then raises ValueError
Handler(row, i1, i2) ==
    IF PyIndex(row, i1).exc # "none" \/ PyIndex(row, i2).exc # "none"
    THEN Exc("IndexError", 152)
    ELSE Exc("ValueError", 152)

\* operation(val1, val2) once both cells are converted (line 150)
RowApply(op, val1, val2) ==
    LET r == Operation(op, val1, val2)
    IN  IF r.exc # "none" THEN Exc(r.exc, 150)
        ELSE [exc |-> "none", line |-> 0, v |-> r.v]

\* lines 148 to 150 given the outcomes of the two conversions
RowConverted(row, i1, i2, op, c2, val1, val2) ==
    CASE val1.exc # "none" -> Handler(row, i1, i2)
      [] c2.exc # "none" -> Exc("IndexError", 149)
      [] val2.exc # "none" -> Handler(row, i1, i2)
      [] OTHER -> RowApply(op, val1.v, val2.v)

\* lines 148 to 150 given the outcomes of reading the two cells
RowCells(row, i1, i2, op, c1, c2) ==
    IF c1.exc # "none" THEN Exc("IndexError", 148)
    ELSE RowConverted(row, i1, i2, op, c2,
                      ConvertToNumeric(c1.v), ConvertToNumeric(c2.v))

\* one pass of the loop body: the value appended to result_values, or the
\* exception that leaves the loop
RowResult(row, i1, i2, op) ==
    RowCells(row, i1, i2, op, PyIndex(row, i1), PyIndex(row, i2))

RECURSIVE RowResultsFrom(_, _, _, _, _)
\* the loop from position p of rows on, r being the outcome of the pass at
\* p: an exception leaves the loop
LoopStep(rows, p, i1, i2, op, r) ==
    IF r.exc # "none" THEN <<r>>
    ELSE <<r>> \o RowResultsFrom(rows, p + 1, i1, i2, op)

\* the outcomes of the passes of the loop from position p of rows on, up to
\* and including the first that raises
RowResultsFrom(rows, p, i1, i2, op) ==
    IF p > Len(rows) THEN <<>>
    ELSE LoopStep(rows, p, i1, i2, op, RowResult(rowObjs[rows[p]], i1, i2, op))

RowResults(rows, i1, i2, op) == RowResultsFrom(rows, 1, i1, i2, op)

RECURSIVE AppendAll(_, _, _, _)
\* for i, value in enumerate(result_values): table.rows[i].append(value),
\* from position i on; a row object met twice is appended to twice
AppendAll(objs, rows, values, i) ==
    IF i > Len(values) THEN objs
    ELSE AppendAll([objs EXCEPT ![rows[i]] = Append(@, FloatCell(values[i]))],
                   rows, values, i + 1)

\* the position of the row whose pass raised (the last one made), or 0
FirstBad(res) ==
    IF res # <<>> /\ res[Len(res)].exc # "none" THEN Len(res) ELSE 0

\* a faulty variant of ApplyRows: each result is appended to its row as soon as it
\* is computed, so a failing row leaves the rows before it longer
ApplyRowsEager(t, args, op, res, bad) ==
    /\ rowObjs' = AppendAll(rowObjs, tables[t].rows,
                            [p \in 1..(IF bad = 0 THEN Len(res) ELSE bad - 1) |-> res[p].v], 1)
    /\ IF bad = 0
       THEN /\ headerObjs' = [headerObjs EXCEPT
                   ![tables[t].headers] = Append(@, args.name)]
            /\ last' = Outcome(op, args, "ok", 0, <<>>, <<>>)
       ELSE /\ headerObjs' = headerObjs
            /\ last' = Outcome(op, args, res[bad].exc, res[bad].line, <<>>, <<>>)
    /\ UNCHANGED <<tables, origin, written>>

\* lines 146 to 155: res is the outcome of the passes of the loop and bad
\* the one that raised; nothing is appended unless none raised
ApplyRows(t, args, op, res, bad) ==
    IF bad # 0 THEN Fails(op, args, res[bad].exc, res[bad].line)
    ELSE /\ headerObjs' = [headerObjs EXCEPT
                ![tables[t].headers] = Append(@, args.name)]
         /\ rowObjs' = AppendAll(rowObjs, tables[t].rows,
                                 [p \in 1..Len(res) |-> res[p].v], 1)
         /\ last' = Outcome(op, args, "ok", 0, <<>>, <<>>)
         /\ UNCHANGED <<tables, origin, written>>

ApplyLoop(t, args, op, res) == ApplyRows(t, args, op, res, FirstBad(res))

\* lines 143 to 155 given the two resolved column positions
ApplyResolved(t, args, op, i1, i2) ==
    IF i1.exc # "none" THEN Fails(op, args, "ValueError", 143)
    ELSE IF i2.exc # "none" THEN Fails(op, args, "ValueError", 144)
    ELSE ApplyLoop(t, args, op, RowResults(tables[t].rows, i1.v, i2.v, op))

ApplyArgs(t, column1, column2, result_column) ==
    [NoArgs EXCEPT !.t = t, !.c1 = column1, !.c2 = column2, !.name = result_column]

(***************************************************************************)
(* TableOperations._apply_operation, with op the operation add, sub, mul   *)
(* or div passes                                                           *)
(***************************************************************************)
ApplyOperation(t, column1, column2, result_column, op) ==
    ApplyResolved(t, ApplyArgs(t, column1, column2, result_column), op,
                  ResolveCol(t, column1), ResolveCol(t, column2))

Add(t, column1, column2, result_column) ==
    ApplyOperation(t, column1, column2, result_column, "add")

Sub(t, column1, column2, result_column) ==
    ApplyOperation(t, column1, column2, result_column, "sub")

Mul(t, column1, column2, result_column) ==
    ApplyOperation(t, column1, column2, result_column, "mul")

Div(t, column1, column2, result_column) ==
    ApplyOperation(t, column1, column2, result_column, "div")

(***************************************************************************)
(* Column types.  A type object is named by a string; "list" stands for a  *)
(* type that is none of int, float, bool, str, datetime.                   *)
(***************************************************************************)
TypeNames == {"int", "float", "bool", "str", "datetime"}

\* d[k] = v on a dict
Put(d, k, v) == [x \in DOMAIN d \cup {k} |-> IF x = k THEN v ELSE d[x]]

\* the if/elif chain of detect_column_types over the values of one column
DetectType(col_values) ==
    LET all(typ) == \A i \in 1..Len(col_values) : IsInstance(col_values[i], typ)
    IN  IF all("int") THEN "int"
        ELSE IF all("float") THEN "float"
        ELSE IF all("bool") THEN "bool"
        ELSE IF all("datetime") THEN "datetime"
        ELSE "str"

\* [row[col_index] for row in table.rows if row[col_index] is not None],
\* or IndexError when a row has no such cell
ColValues(t, col_index) ==
    LET rows == RowsOf(t)
    IN  IF \E i \in 1..Len(rows) : PyIndex(rows[i], col_index).exc # "none"
        THEN Raise("IndexError")
        ELSE Val(LET cells == [i \in 1..Len(rows) |-> rows[i][col_index + 1]]
                 IN  SelectIdx(cells, {i \in 1..Len(rows) : cells[i].t # "none"}))

RECURSIVE DetectFrom(_, _, _)
\* the loop of detect_column_types from column col_index on, on the dict ct:
\* the dict it leaves and the exception it ends with
DetectFrom(ct, t, col_index) ==
    IF col_index >= Len(HeadersOf(t)) THEN [ct |-> ct, exc |-> "none"]
    ELSE LET vals == ColValues(t, col_index)
         IN  IF vals.exc # "none" THEN [ct |-> ct, exc |-> vals.exc]
             ELSE DetectFrom(Put(ct, HeadersOf(t)[col_index + 1], DetectType(vals.v)),
                             t, col_index + 1)

(***************************************************************************)
(* TableOperations.detect_column_types                                     *)
(***************************************************************************)
Detected(t, r) ==
    /\ tables' = [tables EXCEPT ![t].column_types = r.ct]
    /\ last' = Outcome("detect_column_types", [NoArgs EXCEPT !.t = t],
                       IF r.exc = "none" THEN "ok" ELSE r.exc,
                       IF r.exc = "none" THEN 0 ELSE 103, <<>>, <<>>)
    /\ UNCHANGED <<headerObjs, rowObjs, origin, written>>

DetectColumnTypes(t) == Detected(t, DetectFrom(tables[t].column_types, t, 0))

\* one pass of the loop of set_column_types: the header and type to store,
\* or the line that raises ValueError
SetEntry(t, key, value) ==
    LET hs == HeadersOf(t)
    IN  CASE key.kind = "int" /\ (key.i < 0 \/ key.i >= Len(hs)) -> [line |-> 120, header |-> ""]
          [] key.kind = "str" /\ key.s \notin Range(hs) -> [line |-> 124, header |-> ""]
          [] key.kind \notin {"int", "str"} -> [line |-> 127, header |-> ""]
          [] value \notin TypeNames -> [line |-> 130, header |-> ""]
          [] key.kind = "int" -> [line |-> 0, header |-> hs[key.i + 1]]
          [] OTHER -> [line |-> 0, header |-> key.s]

RECURSIVE SetFrom(_, _, _, _)
\* the loop of set_column_types from entry i of types_dict on, on the dict ct
SetFrom(ct, t, types_dict, i) ==
    IF i > Len(types_dict) THEN [ct |-> ct, line |-> 0]
    ELSE LET e == SetEntry(t, types_dict[i].key, types_dict[i].value)
         IN  IF e.line # 0 THEN [ct |-> ct, line |-> e.line]
             ELSE SetFrom(Put(ct, e.header, types_dict[i].value), t, types_dict, i + 1)

(***************************************************************************)
(* TableOperations.set_column_types; types_dict is the sequence of the     *)
(* dict's items in iteration (insertion) order                             *)
(***************************************************************************)
TypesSet(t, types_dict, r) ==
    /\ tables' = [tables EXCEPT ![t].column_types = r.ct]
    /\ last' = Outcome("set_column_types", [NoArgs EXCEPT !.t = t, !.dict = types_dict],
                       IF r.line = 0 THEN "ok" ELSE "ValueError", r.line, <<>>, <<>>)
    /\ UNCHANGED <<headerObjs, rowObjs, origin, written>>

SetColumnTypes(t, types_dict) ==
    TypesSet(t, types_dict, SetFrom(tables[t].column_types, t, types_dict, 1))

(***************************************************************************)
(* Saving in parts.  A written file is [part, ext, headers, rows]: part is *)
(* the number in the "_part<n>" suffix of its path (0: the path as given), *)
(* headers and rows are what is handed to the writer.                      *)
(***************************************************************************)
\* a // b of Python ints, b # 0: the floor of the quotient
FloorDiv(a, b) == IF b > 0 THEN a \div b ELSE (-a) \div (-b)

\* num_files = (len(table.rows) + max_rows - 1) // max_rows
NumFiles(n, max_rows) == FloorDiv(n + max_rows - 1, max_rows)

\* the files the loop over range(num_files) writes
PartFiles(t, max_rows, ext) ==
    LET num_files == NumFiles(Len(tables[t].rows), max_rows)
    IN  [i \in 1..num_files |->
            [part |-> i, ext |-> ext, headers |-> HeadersOf(t),
             rows |-> Slice(RowsOf(t), (i - 1) * max_rows, i * max_rows)]]

WholeFile(t) == <<[part |-> 0, ext |-> "", headers |-> HeadersOf(t), rows |-> RowsOf(t)]>>

\* save_table of either module; has_max = FALSE is max_rows = None, and a
\* max_rows of 0 is falsy too
SaveTable(op, ext, t, has_max, max_rows) ==
    /\ written' = IF has_max /\ max_rows # 0 THEN PartFiles(t, max_rows, ext)
                  ELSE WholeFile(t)
    /\ last' = Outcome(op, [NoArgs EXCEPT !.t = t, !.has = has_max,
                                           !.m = IF has_max THEN max_rows ELSE 0],
                       "ok", 0, <<>>, <<>>)
    /\ UNCHANGED <<headerObjs, rowObjs, tables, origin>>

(***************************************************************************)
(* CSVModule.save_table and PickleModule.save_table                        *)
(***************************************************************************)
CSVSaveTable(t, has_max, max_rows) == SaveTable("csv_save_table", "csv", t, has_max, max_rows)

PickleSaveTable(t, has_max, max_rows) == SaveTable("pickle_save_table", "pkl", t, has_max, max_rows)

(***************************************************************************)
(* Loading.  load_table builds one Table from the files it is given: its   *)
(* header list is the first file's, its row list holds the rows of all     *)
(* files in order, every row a new list object.  Loaded(fs) is the heap    *)
(* after one load_table call per element of fs, each element [headers,     *)
(* rows] the content read.                                                 *)
(***************************************************************************)
RECURSIVE Flatten(_)
Flatten(ss) == IF ss = <<>> THEN <<>> ELSE Head(ss) \o Flatten(Tail(ss))

RowOffset(fs, i) == Len(Flatten([j \in 1..(i - 1) |-> fs[j].rows]))

Loaded(fs) ==
    /\ headerObjs = [i \in 1..Len(fs) |-> fs[i].headers]
    /\ rowObjs = Flatten([i \in 1..Len(fs) |-> fs[i].rows])
    /\ tables = [i \in 1..Len(fs) |->
                    [headers |-> i,
                     rows |-> [r \in 1..Len(fs[i].rows) |-> RowOffset(fs, i) + r],
                     column_types |-> [x \in Range(fs[i].headers) |-> "str"]]]
    /\ origin = [i \in 1..Len(fs) |-> Origin("load_table", 0)]
    /\ last = Outcome("load_table", NoArgs, "ok", 0, <<Len(fs)>>, <<>>)
    /\ written = <<>>

\* a str from its characters
S1(a) == StrCell(<<a>>)

S2(a, b) == StrCell(<<a, b>>)

\* all sequences over set of a length from lo to hi
SeqsOf(set, lo, hi) == UNION {[1..n -> set] : n \in lo..hi}

(***************************************************************************)
(* Inputs of the calls.                                                    *)
(***************************************************************************)
CsvRows == { <<S1("1"), S2("3", "0")>>, <<S1("2"), S2("4", "0")>>, <<S1("2"), S1("x")>> }

\* every bool_list of the right length, and one that is too long
Masks(t) ==
    [1..Len(tables[t].rows) -> BOOLEAN] \cup {[i \in 1..(Len(tables[t].rows) + 1) |-> TRUE]}

\* (start, stop) arguments for a table of n rows; stop = -2 stands for None
Ranges(n) == { <<0, -2>>, <<1, -2>>, <<n, -2>>, <<-1, -2>>, <<0, n>>, <<1, n>>,
               <<0, n + 1>>, <<1, 0>> }

KeySets == { {S1("1")}, {S1("2"), IntCell(1)} }

ColPairs == { <<ColName("Age"), ColName("Age")>>, <<ColName("S"), ColIdx(-1)>> }

Ops == {"add", "sub", "mul", "div"}

ResultNames == {"S", "Age"}

\* the tables that calls are made on: once MaxTables tables exist no more
\* are made, and a table of MaxCols columns gets no more columns
MayMake == Len(tables) < MaxTables

MayGrow(t) == Len(HeadersOf(t)) < MaxCols

DoConcat == \E a, b \in TableIds : MayMake /\ Concat(a, b)

DoSplit ==
    \E t \in TableIds : \E k \in -1..(Len(tables[t].rows) + 1) : MayMake /\ Split(t, k)

DoFilterRows ==
    \E t \in TableIds : \E m \in Masks(t) : \E c \in BOOLEAN : MayMake /\ FilterRows(t, m, c)

DoGetRowsByNumber ==
    \E t \in TableIds : \E r \in Ranges(Len(tables[t].rows)) : \E c \in BOOLEAN :
        MayMake /\ GetRowsByNumber(t, r[1], r[2] # -2, r[2], c)

DoGetRowsByIndex ==
    \E t \in TableIds : \E ks \in KeySets : \E c \in BOOLEAN :
        MayMake /\ GetRowsByIndex(t, ks, c)

DoFilterCopy == \E t \in TableIds : \E m \in Masks(t) : MayMake /\ FilterRows(t, m, TRUE)

DoAdd ==
    \E t \in TableIds : \E cs \in ColPairs : \E r \in ResultNames :
        MayGrow(t) /\ Add(t, cs[1], cs[2], r)

DoSub ==
    \E t \in TableIds : \E cs \in ColPairs : \E r \in ResultNames :
        MayGrow(t) /\ Sub(t, cs[1], cs[2], r)

DoMul ==
    \E t \in TableIds : \E cs \in ColPairs : \E r \in ResultNames :
        MayGrow(t) /\ Mul(t, cs[1], cs[2], r)

DoDiv ==
    \E t \in TableIds : \E cs \in ColPairs : \E r \in ResultNames :
        MayGrow(t) /\ Div(t, cs[1], cs[2], r)

(***************************************************************************)
(* SpecRows: one table read from a CSV file (every cell a str), and the    *)
(* row operations on it and on the tables they return.                     *)
(***************************************************************************)
InitRows ==
    \E rows \in SeqsOf(CsvRows, 0, MaxRows) :
        Loaded(<< [headers |-> <<"id", "Age">>, rows |-> rows] >>)

NextRows ==
    \/ DoConcat
    \/ DoSplit
    \/ DoFilterRows
    \/ DoGetRowsByNumber
    \/ DoGetRowsByIndex

SpecRows == InitRows /\ [][NextRows]_vars

(***************************************************************************)
(* Spec: the same table, the column arithmetic, and the operations that    *)
(* return tables sharing its rows and headers.                             *)
(***************************************************************************)
CsvFiles ==
    { << <<S1("1"), S2("3", "0")>>, <<S1("2"), S2("4", "0")>> >>,
      << <<S1("1"), S2("3", "0")>>, <<S1("2"), S1("x")>> >>,
      << <<S1("2"), S1("x")>>, <<S1("2"), S2("4", "0")>> >> }

Init ==
    \E rows \in CsvFiles :
        Loaded(<< [headers |-> <<"id", "Age">>, rows |-> rows] >>)

Next ==
    \/ DoConcat
    \/ DoSplit
    \/ DoFilterCopy
    \/ DoAdd
    \/ DoSub
    \/ DoMul
    \/ DoDiv

Spec == Init /\ [][Next]_vars

(***************************************************************************)
(* SpecTypes: two tables read from pickle files (cells of every runtime    *)
(* type), the second with the first's headers or with others; the column   *)
(* type operations, and concat.                                            *)
(***************************************************************************)
PickleRows ==
    { <<IntCell(1), BoolCell(TRUE)>>, <<BoolCell(FALSE), FloatCell(Fin(1, 2))>>,
      <<IntCell(2), NoneCell>>, <<StrCell(<<"x">>), DateCell(1)>> }

OtherHeaders == { <<"id", "Age">>, <<"id", "S">> }

InitTypes ==
    \E rows \in SeqsOf(PickleRows, 0, MaxRows) : \E hs \in OtherHeaders :
        Loaded(<< [headers |-> <<"id", "Age">>, rows |-> rows],
                  [headers |-> hs, rows |-> << <<IntCell(3), FloatCell(Fin(4, 1))>> >>] >>)

Item(key, value) == [key |-> key, value |-> value]

TypeDicts ==
    { << Item(ColName("id"), "int") >>,
      << Item(ColIdx(0), "float"), Item(ColName("Age"), "bool") >>,
      << Item(ColName("id"), "int"), Item(ColName("bogus"), "int") >>,
      << Item(ColName("Age"), "datetime"), Item(ColIdx(2), "int") >>,
      << Item(ColIdx(1), "list") >>,
      << Item(ColIdx(-1), "str") >>,
      << Item(ColOther, "int") >>,
      << Item(ColName("id"), "int"), Item(ColIdx(0), "str") >> }

DoDetectColumnTypes == \E t \in TableIds : MayMake /\ DetectColumnTypes(t)

DoSetColumnTypes ==
    \E t \in TableIds : \E d \in TypeDicts : MayMake /\ SetColumnTypes(t, d)

NextTypes ==
    \/ DoConcat
    \/ DoDetectColumnTypes
    \/ DoSetColumnTypes

SpecTypes == InitTypes /\ [][NextTypes]_vars

(***************************************************************************)
(* SpecArith: one table of two columns whose first row holds cells of      *)
(* every kind float() accepts or refuses, and whose second row has a zero  *)
(* in column y; the four column operations.                                *)
(***************************************************************************)
NumCells ==
    { StrCell(<<"0">>), StrCell(<<"-", "2">>), StrCell(<<"1", ".", "5">>),
      StrCell(<<"i", "n", "f">>), StrCell(<<"n", "a", "n">>), StrCell(<<"x">>),
      IntCell(0), IntCell(3), FloatCell(Fin(-1, 2)), FloatCell(NegInf),
      BoolCell(FALSE), BoolCell(TRUE), NoneCell }

InitArith ==
    \E a, b \in NumCells :
        Loaded(<< [headers |-> <<"x", "y">>,
                   rows |-> << <<a, b>>, <<StrCell(<<"6">>), IntCell(0)>> >>] >>)

NumPairs == { <<ColIdx(0), ColIdx(1)>>, <<ColName("y"), ColName("x")>>,
              <<ColIdx(2), ColName("x")>> }

DoAddNum == \E cs \in NumPairs : MayGrow(1) /\ Add(1, cs[1], cs[2], "z")

DoSubNum == \E cs \in NumPairs : MayGrow(1) /\ Sub(1, cs[1], cs[2], "z")

DoMulNum == \E cs \in NumPairs : MayGrow(1) /\ Mul(1, cs[1], cs[2], "z")

DoDivNum == \E cs \in NumPairs : MayGrow(1) /\ Div(1, cs[1], cs[2], "z")

NextArith ==
    \/ DoAddNum
    \/ DoSubNum
    \/ DoMulNum
    \/ DoDivNum

SpecArith == InitArith /\ [][NextArith]_vars

(***************************************************************************)
(* SpecSave: one loaded table of up to MaxPartRows rows, saved by either   *)
(* module with max_rows omitted or any size from -2 to one more than the   *)
(* longest table.  written holds what the last call handed to the csv      *)
(* writer or to pickle.dump, file by file in the order of writing.         *)
(***************************************************************************)
InitSave ==
    \E rows \in SeqsOf(CsvRows, 0, MaxPartRows) :
        Loaded(<< [headers |-> <<"id", "Age">>, rows |-> rows] >>)

PartSizes == (-2)..(MaxPartRows + 1)

DoCSVSaveTable ==
    \E has_max \in BOOLEAN, m \in PartSizes : 1 \in TableIds /\ CSVSaveTable(1, has_max, m)

DoPickleSaveTable ==
    \E has_max \in BOOLEAN, m \in PartSizes : 1 \in TableIds /\ PickleSaveTable(1, has_max, m)

NextSave ==
    \/ DoCSVSaveTable
    \/ DoPickleSaveTable

SpecSave == InitSave /\ [][NextSave]_vars

(***************************************************************************)
(* What the claims speak of.  A step of a call is recognised by last': the *)
(* call's name and arguments.                                              *)
(***************************************************************************)
\* a table as a caller reads it: its columns, its rows and its declared
\* types, in a heap, now and after the step
ViewIn(hs, rs, tbls, t) ==
    [columns |-> HeadersIn(hs, tbls, t), rows |-> RowsIn(rs, tbls, t),
     declared_types |-> tbls[t].column_types]

View(t) == ViewIn(headerObjs, rowObjs, tables, t)

ViewAfter(t) == ViewIn(headerObjs', rowObjs', tables', t)

\* the heap is as it was: no header list, row list or table has changed
HeapUnchanged == headerObjs' = headerObjs /\ rowObjs' = rowObjs /\ tables' = tables

\* the positions of t.rows that hold row object o
PositionsOf(t, o) == {i \in 1..Len(tables[t].rows) : tables[t].rows[i] = o}

\* C1: every row of every table has as many cells as the table has columns
C1_ArityInvariant ==
    \A t \in TableIds : \A i \in 1..Len(tables[t].rows) :
        Len(rowObjs[tables[t].rows[i]]) = Len(HeadersOf(t))

\* C2: no table holds a column name twice
C2_ColumnsUnique ==
    \A t \in TableIds : \A i, j \in 1..Len(HeadersOf(t)) :
        i # j => HeadersOf(t)[i] # HeadersOf(t)[j]

\* C8: a column operation on a table leaves every table that a
\* copy_table=True call made from it as it was, and a column operation on
\* such a copy leaves the table it was made from as it was
C8_CopiesIndependent ==
    [][last'.op \in Ops =>
          \A r \in TableIds :
              origin[r].copy =>
                  /\ (origin[r].src = last'.args.t => ViewAfter(r) = View(r))
                  /\ (r = last'.args.t =>
                         ViewAfter(origin[r].src) = View(origin[r].src))]_vars

\* both operand cells of every row of t exist: the columns resolve to
\* positions and every row has a cell at both
OperandsExist(t, column1, column2) ==
    /\ ResolveCol(t, column1).exc = "none"
    /\ ResolveCol(t, column2).exc = "none"
    /\ \A i \in 1..Len(tables[t].rows) :
          /\ PyIndex(RowsOf(t)[i], ResolveCol(t, column1).v).exc = "none"
          /\ PyIndex(RowsOf(t)[i], ResolveCol(t, column2).v).exc = "none"

\* both operand cells of every row of t convert to float
OperandsCoerce(t, column1, column2) ==
    \A i \in 1..Len(tables[t].rows) :
        /\ PyFloat(PyIndex(RowsOf(t)[i], ResolveCol(t, column1).v).v).exc = "none"
        /\ PyFloat(PyIndex(RowsOf(t)[i], ResolveCol(t, column2).v).v).exc = "none"

\* the heap after result_column and one cell per position of t.rows were
\* appended, and nothing else changed
ColumnAppended(t, result_column) ==
    /\ tables' = tables
    /\ \A h \in 1..Len(headerObjs) :
          headerObjs'[h] = IF h = tables[t].headers
                           THEN Append(headerObjs[h], result_column)
                           ELSE headerObjs[h]
    /\ \A o \in 1..Len(rowObjs) :
          /\ Len(rowObjs'[o]) = Len(rowObjs[o]) + Cardinality(PositionsOf(t, o))
          /\ SubSeq(rowObjs'[o], 1, Len(rowObjs[o])) = rowObjs[o]

\* C10: a column operation that raises changes no table, row or header
\* list; with operand cells present in every row it raises the ValueError of
\* line 152 exactly when some operand does not convert to float, and
\* otherwise appends result_column to the headers once and one cell to the
\* row at each position of table.rows, changing nothing else
C10_ApplyAtomic ==
    [][last'.op \in Ops =>
          /\ last'.status # "ok" => HeapUnchanged
          /\ OperandsExist(last'.args.t, last'.args.c1, last'.args.c2) =>
                IF OperandsCoerce(last'.args.t, last'.args.c1, last'.args.c2)
                THEN last'.status = "ok"
                     /\ ColumnAppended(last'.args.t, last'.args.name)
                ELSE last'.status = "ValueError" /\ last'.line = 152
                     /\ HeapUnchanged]_vars

\* C10 witness: on a table whose first row converts and whose second does
\* not, a column operation on the Age column has raised the ValueError of
\* line 152
C10_Witness ==
    /\ last.op \in Ops /\ last.status = "ValueError" /\ last.line = 152
    /\ last.args.c1 = ColName("Age") /\ last.args.c2 = ColName("Age")
    /\ Len(tables[last.args.t].rows) >= 2
    /\ PyFloat(RowsOf(last.args.t)[1][2]).exc = "none"
    /\ PyFloat(RowsOf(last.args.t)[2][2]).exc # "none"

\* C4: split(t, k) with 0 <= k <= len(t.rows) returns two new tables with
\* t's columns, the first holding the first k rows and the second the rest,
\* and leaves every table there was as it was; any other k raises the
\* ValueError of line 97 and makes no table
C4_Split ==
    [][last'.op = "split" =>
          IF 0 <= last'.args.n /\ last'.args.n <= Len(tables[last'.args.t].rows)
          THEN /\ last'.status = "ok"
               /\ last'.res = <<Len(tables) + 1, Len(tables) + 2>>
               /\ Len(tables') = Len(tables) + 2
               /\ Len(tables'[Len(tables) + 1].rows) = last'.args.n
               /\ tables'[Len(tables) + 1].rows \o tables'[Len(tables) + 2].rows
                     = tables[last'.args.t].rows
               /\ ViewAfter(Len(tables) + 1).rows \o ViewAfter(Len(tables) + 2).rows
                     = RowsOf(last'.args.t)
               /\ ViewAfter(Len(tables) + 1).columns = HeadersOf(last'.args.t)
               /\ ViewAfter(Len(tables) + 2).columns = HeadersOf(last'.args.t)
               /\ \A u \in TableIds : ViewAfter(u) = View(u)
          ELSE /\ last'.status = "ValueError" /\ last'.line = 97
               /\ HeapUnchanged]_vars

\* C4 witness: a table of four rows, two of them the same row object, has
\* been split after its first row
C4_Witness ==
    /\ last.op = "split" /\ last.status = "ok" /\ last.args.n = 1
    /\ Len(tables[last.args.t].rows) = 4
    /\ Len(tables[last.res[1]].rows) = 1
    /\ Len(tables[last.res[2]].rows) = 3
    /\ tables[last.res[1]].rows[1] \in Range(tables[last.res[2]].rows)

\* C3: concat(a, b) succeeds exactly when the two header lists are equal;
\* it then returns one new table with a's columns, a's rows followed by b's,
\* and every column declared str whatever a and b declare, leaving the
\* tables there were as they were; otherwise it raises the ValueError of
\* line 91 and makes no table
C3_Concat ==
    [][last'.op = "concat" =>
          IF HeadersOf(last'.args.t) = HeadersOf(last'.args.u)
          THEN /\ last'.status = "ok"
               /\ last'.res = <<Len(tables) + 1>>
               /\ Len(tables') = Len(tables) + 1
               /\ ViewAfter(Len(tables) + 1).columns = HeadersOf(last'.args.t)
               /\ ViewAfter(Len(tables) + 1).rows
                     = RowsOf(last'.args.t) \o RowsOf(last'.args.u)
               /\ ViewAfter(Len(tables) + 1).declared_types
                     = [x \in Range(HeadersOf(last'.args.t)) |-> "str"]
               /\ \A u \in TableIds : ViewAfter(u) = View(u)
          ELSE /\ last'.status = "ValueError" /\ last'.line = 91
               /\ HeapUnchanged]_vars

\* C3 witness: two tables with equal headers in different list objects, the
\* first declaring a column that is not str, have been concatenated
C3_Witness ==
    /\ last.op = "concat" /\ last.status = "ok"
    /\ tables[last.args.t].headers # tables[last.args.u].headers
    /\ \E x \in DOMAIN tables[last.args.t].column_types :
          tables[last.args.t].column_types[x] # "str"
    /\ Len(tables[last.res[1]].rows) >= 2

\* the one type all of vals have, when that is int, float, bool or
\* datetime, and str otherwise
StrictType(vals) ==
    IF \E typ \in {"int", "float", "bool", "datetime"} :
          \A i \in 1..Len(vals) : vals[i].t = typ
    THEN vals[1].t
    ELSE "str"

\* C5: after detect_column_types every column with a cell that is not None
\* is declared the runtime type all such cells have, or str when they have
\* not one type or are str
C5_DetectStrict ==
    [][(last'.op = "detect_column_types" /\ last'.status = "ok") =>
          \A c \in 1..Len(HeadersOf(last'.args.t)) :
              ColValues(last'.args.t, c - 1).v # <<>> =>
                  ViewAfter(last'.args.t).declared_types[HeadersOf(last'.args.t)[c]]
                     = StrictType(ColValues(last'.args.t, c - 1).v)]_vars

\* an item of types_dict that set_column_types accepts for table t
ValidItem(t, e) ==
    /\ \/ e.key.kind = "int" /\ 0 <= e.key.i /\ e.key.i < Len(HeadersOf(t))
       \/ e.key.kind = "str" /\ e.key.s \in Range(HeadersOf(t))
    /\ e.value \in TypeNames

\* the column an accepted item names
ItemHeader(t, e) == IF e.key.kind = "int" THEN HeadersOf(t)[e.key.i + 1] ELSE e.key.s

\* the type the dict asks for column x: that of the last item naming x
Requested(t, d, x) ==
    d[CHOOSE i \in 1..Len(d) :
          ItemHeader(t, d[i]) = x
          /\ \A j \in (i + 1)..Len(d) : ItemHeader(t, d[j]) # x].value

\* C9: set_column_types either stores every requested type and leaves the
\* other columns' types alone, when every item is accepted, or raises
\* ValueError and leaves column_types as it was; rows and headers are
\* unchanged either way
C9_SetAllOrNothing ==
    [][last'.op = "set_column_types" =>
          /\ headerObjs' = headerObjs /\ rowObjs' = rowObjs
          /\ IF \A i \in 1..Len(last'.args.dict) : ValidItem(last'.args.t, last'.args.dict[i])
             THEN /\ last'.status = "ok"
                  /\ \A x \in DOMAIN tables'[last'.args.t].column_types :
                        tables'[last'.args.t].column_types[x] =
                           IF \E i \in 1..Len(last'.args.dict) :
                                 ItemHeader(last'.args.t, last'.args.dict[i]) = x
                           THEN Requested(last'.args.t, last'.args.dict, x)
                           ELSE tables[last'.args.t].column_types[x]
             ELSE /\ last'.status = "ValueError"
                  /\ tables' = tables]_vars

\* r is the quotient a / b of floats, b not zero: for finite a and b the
\* fraction with r * b = a, and otherwise what IEEE 754 division gives
IsQuotient(r, a, b) ==
    CASE a.k = "fin" /\ b.k = "fin" ->
            r.k = "fin" /\ r.n * b.n * a.d = a.n * r.d * b.d
      [] a.k = "nan" \/ b.k = "nan" -> r.k = "nan"
      [] a.k = "fin" -> r.k = "fin" /\ r.n = 0
      [] b.k = "fin" -> r.k = (IF (a.k = "inf") = (b.n > 0) THEN "inf" ELSE "ninf")
      [] OTHER -> r.k = "nan"

\* r is a + b, a - b or a * b of finite floats, as fractions
IsResult(op, r, a, b) ==
    /\ r.k = "fin"
    /\ CASE op = "add" -> r.n * a.d * b.d = (a.n * b.d + b.n * a.d) * r.d
         [] op = "sub" -> r.n * a.d * b.d = (a.n * b.d - b.n * a.d) * r.d
         [] op = "mul" -> r.n * a.d * b.d = a.n * b.n * r.d

\* what C6 says of the cell c appended for operands a and b
RightCell(op, c, a, b) ==
    /\ c.t = "float"
    /\ CASE op = "div" ->
               IF b.k = "fin" /\ b.n = 0 THEN c.x = PosInf ELSE IsQuotient(c.x, a, b)
         [] a.k = "fin" /\ b.k = "fin" -> IsResult(op, c.x, a, b)
         [] OTHER -> c.x.k # "fin"

\* the float of the operand cell of row i of t in the given column
Operand(t, i, column) == PyFloat(PyIndex(RowsOf(t)[i], ResolveCol(t, column).v).v).v

\* C6: a column operation whose operand cells all exist and convert to
\* float does not raise, and the cell it appends to each row is +inf for a
\* division by zero, the quotient for any other division, and the ordinary
\* sum, difference or product under add, sub and mul
C6_DivideByZero ==
    [][(last'.op \in Ops
          /\ OperandsExist(last'.args.t, last'.args.c1, last'.args.c2)
          /\ OperandsCoerce(last'.args.t, last'.args.c1, last'.args.c2)) =>
          /\ last'.status = "ok"
          /\ \A i \in 1..Len(tables[last'.args.t].rows) :
                /\ Len(ViewAfter(last'.args.t).rows[i]) = Len(RowsOf(last'.args.t)[i]) + 1
                /\ RightCell(last'.op,
                             ViewAfter(last'.args.t).rows[i][Len(RowsOf(last'.args.t)[i]) + 1],
                             Operand(last'.args.t, i, last'.args.c1),
                             Operand(last'.args.t, i, last'.args.c2))]_vars

\* C6 witness: a division has appended +inf to a row whose dividend is
\* negative and whose divisor is zero, and a finite quotient to another row
C6_Witness ==
    /\ last.op = "div" /\ last.status = "ok"
    /\ last.args.c1 = ColIdx(0) /\ last.args.c2 = ColIdx(1)
    /\ PyFloat(RowsOf(1)[1][1]).v.k = "fin" /\ PyFloat(RowsOf(1)[1][1]).v.n < 0
    /\ PyFloat(RowsOf(1)[1][2]).v = Fin(0, 1)
    /\ RowsOf(1)[1][3] = FloatCell(PosInf)
    /\ RowsOf(1)[2][3] = FloatCell(PosInf)

SaveOps == {"csv_save_table", "pickle_save_table"}

\* k = ceil(n / m); no k is for m = 0
IsCeil(k, n, m) ==
    CASE m > 0 -> (k - 1) * m < n /\ n <= k * m
      [] m < 0 -> k * m <= n /\ n < (k - 1) * m
      [] OTHER -> FALSE

\* the files w are table t cut into parts of at most m rows
Partitioned(w, t, m) ==
    /\ IsCeil(Len(w), Len(tables[t].rows), m)
    /\ \A i \in 1..Len(w) :
          /\ w[i].part = i
          /\ w[i].headers = HeadersOf(t)
          /\ Len(w[i].rows) <= m
    /\ Flatten([i \in 1..Len(w) |-> w[i].rows]) = RowsOf(t)

\* C7: save_table with max_rows given writes ceil(len(rows) / max_rows)
\* parts numbered from 1, each with the table's headers and at most max_rows
\* rows, whose rows in part order are the table's rows, for every max_rows
\* given and every number of rows
C7_SavePartitions ==
    [][(last'.op \in SaveOps /\ last'.args.has) =>
          Partitioned(written', last'.args.t, last'.args.m)]_vars

\* C7 restricted to max_rows >= 1, where the code does what C7 says
C7_PositiveSizes ==
    [][(last'.op \in SaveOps /\ last'.args.has /\ last'.args.m >= 1) =>
          Partitioned(written', last'.args.t, last'.args.m)]_vars

\* C7 failing input: a table with rows saved with max_rows = -1; the call
\* returns and no file has been written
C7_NothingWritten ==
    /\ last.op \in SaveOps /\ last.args.has /\ last.args.m = -1
    /\ Len(tables[1].rows) > 0
    /\ written = <<>>

====
